---------------------------- MODULE Spec2Model ----------------------------
(***************************************************************************)
(* A model of protean's monitor loop (src/src/main.rs, monitor_text): the  *)
(* encounter detection driven by pending_pokemon / no_pattern_count, the   *)
(* frequency table, the keyboard commands and the pause accounting, with   *)
(* the name extraction and the name normalisation the loop calls, and the  *)
(* image preprocessing of src/src/ocr.rs, each of them also on its own.    *)
(*                                                                         *)
(* Text is a sequence of characters, each character a string.  A character *)
(* has a UTF-8 width, so that byte offsets are what the code computes.     *)
(***************************************************************************)
EXTENDS Integers, Sequences, FiniteSets, TLC

VARIABLES
    cfg,                    \* Config: empty_threshold, window_detection
    text_counts,            \* HashMap<String, usize>
    last_text,              \* String
    pending_pokemon,        \* Option<String>
    no_pattern_count,       \* u32
    paused,                 \* bool, the manual pause
    window_paused,          \* bool, the focus-loss pause
    total_paused_duration,  \* Duration
    pause_start,            \* Option<Instant>
    now,                    \* the monotonic clock; start_time is instant 0
    pc,                     \* position in the loop body
    hist,                   \* history: the sample ticks since start or restart
    horizon,                \* how far a run is explored: ticks recorded, clock
    manual_pause,           \* history: the manual pause in progress
    paused_time,            \* history: the time spent paused by any source
    last_step,              \* history: the last step of the loop
    last_cmd,               \* history: the last command, while nothing
                            \* changed what it left
    quit_pending,           \* the 'q' waiting in the terminal's event queue
    extraction,             \* a text and what the two extractions return
    normalization,          \* a table and what normalising it returns
    preprocessing           \* an image and what preprocessing it returns

vars == <<cfg, text_counts, last_text, pending_pokemon, no_pattern_count,
          paused, window_paused, total_paused_duration, pause_start, now, pc,
          hist, horizon, manual_pause, paused_time, last_step, last_cmd,
          quit_pending, extraction, normalization, preprocessing>>

\* ------------------------------------------------------------------ bounds

\* Largest empty_threshold a run is configured with.
MaxThreshold == 3

\* Longest recorded history of sample ticks (long-history runs).
MaxHist == 6

\* Last instant of the clock (long-clock runs).
MaxTime == 3

\* Recorded history of the long-clock runs.
ShortHist == 2

\* Last instant of the clock of the runs that record a waiting 'q'.
LogTime == 1

\* Recorded history of the runs that record the last command: two names are
\* counted in four ticks.
CmdHist == 4

\* Recorded history of the runs that record a waiting 'q'.
QuitHist == 1

\* Most events in the queue before a 'q' that waits.
MaxAhead == 1

\* ------------------------------------------------------------ option values

NoName == [some |-> FALSE, val |-> <<>>]

SomeName(n) == [some |-> TRUE, val |-> n]

NoInstant == [some |-> FALSE, val |-> 0]

SomeInstant(t) == [some |-> TRUE, val |-> t]

\* --------------------------------------------------------------- characters

LowerLetters ==
    <<"a","b","c","d","e","f","g","h","i","j","k","l","m",
      "n","o","p","q","r","s","t","u","v","w","x","y","z">>

UpperLetters ==
    <<"A","B","C","D","E","F","G","H","I","J","K","L","M",
      "N","O","P","Q","R","S","T","U","V","W","X","Y","Z">>

\* Number of bytes of a character in UTF-8.  The characters outside ASCII
\* are named by their code point.
Utf8Len(c) ==
    IF c \in {"U+0131", "U+00DF", "U+00E9", "U+00C9",
               "U+0390", "U+0399", "U+0308", "U+0301"} THEN 2 ELSE 1

\* char::is_whitespace, on the characters of the model.
IsWhitespace(c) == c \in {" ", "\t", "\n"}

\* char::to_uppercase: the characters a character upper-cases to.
CharToUpper(c) ==
    IF \E i \in 1..Len(LowerLetters) : LowerLetters[i] = c
    THEN <<UpperLetters[CHOOSE i \in 1..Len(LowerLetters) : LowerLetters[i] = c]>>
    ELSE IF c = "U+0131" THEN <<"I">>
    ELSE IF c = "U+00DF" THEN <<"S", "S">>
    ELSE IF c = "U+00E9" THEN <<"U+00C9">>
    ELSE IF c = "U+0390" THEN <<"U+0399", "U+0308", "U+0301">>
    ELSE <<c>>

RECURSIVE ToUppercase(_)
\* str::to_uppercase.
ToUppercase(s) ==
    IF s = <<>> THEN <<>> ELSE CharToUpper(Head(s)) \o ToUppercase(Tail(s))

RECURSIVE ByteLen(_)
\* str::len: the length in bytes.
ByteLen(s) == IF s = <<>> THEN 0 ELSE Utf8Len(Head(s)) + ByteLen(Tail(s))

\* The marker, "VS. WILD".
VsWild == <<"V", "S", ".", " ", "W", "I", "L", "D">>

\* str::find: the byte offset of the first occurrence of pat, or -1.
Find(s, pat) ==
    LET Hits == {i \in 0..(Len(s) - Len(pat)) :
                    SubSeq(s, i + 1, i + Len(pat)) = pat}
    IN  IF Hits = {} THEN -1
        ELSE LET i == CHOOSE h \in Hits : \A g \in Hits : h <= g
             IN  ByteLen(SubSeq(s, 1, i))

\* str::is_char_boundary.
IsCharBoundary(s, b) == \E k \in 0..Len(s) : ByteLen(SubSeq(s, 1, k)) = b

\* &s[b..] for a byte offset b that is a character boundary.
SliceFrom(s, b) ==
    LET k == CHOOSE j \in 0..Len(s) : ByteLen(SubSeq(s, 1, j)) = b
    IN  SubSeq(s, k + 1, Len(s))

RECURSIVE TrimStart(_)
\* str::trim_start.
TrimStart(s) ==
    IF s # <<>> /\ IsWhitespace(Head(s)) THEN TrimStart(Tail(s)) ELSE s

RECURSIVE TakeToken(_)
\* The longest prefix without whitespace.
TakeToken(s) ==
    IF s = <<>> \/ IsWhitespace(Head(s)) THEN <<>>
    ELSE <<Head(s)>> \o TakeToken(Tail(s))

\* str::split_whitespace().next(): the first token, <<>> when there is none.
FirstToken(s) == TakeToken(TrimStart(s))

\* An extraction that searches the text itself, without upper-casing it.
extract_pokemon_name_case_sensitive(text) ==
    LET vs_pos     == Find(text, VsWild)
        after_wild == vs_pos + ByteLen(VsWild)
    IN  IF vs_pos = -1 THEN [kind |-> "None", val |-> <<>>]
        ELSE LET pokemon == FirstToken(SliceFrom(text, after_wild))
             IN  IF pokemon # <<>> THEN [kind |-> "Some", val |-> pokemon]
                 ELSE [kind |-> "None", val |-> <<>>]

\* extract_pokemon_name of main.rs.  The offset is found in the upper-cased
\* text and used to slice the text itself; slicing off a character boundary
\* or past the end panics.
extract_pokemon_name(text) ==
    LET text_upper == ToUppercase(text)
        vs_pos     == Find(text_upper, VsWild)
        after_wild == vs_pos + ByteLen(VsWild)
    IN  IF vs_pos = -1 THEN [kind |-> "None", val |-> <<>>]
        ELSE IF ~IsCharBoundary(text, after_wild)
             THEN [kind |-> "Panic", val |-> <<>>]
        ELSE LET remaining == TrimStart(SliceFrom(text, after_wild))
                 pokemon   == FirstToken(remaining)
             IN  IF pokemon # <<>> THEN [kind |-> "Some", val |-> pokemon]
                 ELSE [kind |-> "None", val |-> <<>>]


\* char::eq_ignore_ascii_case: only the ASCII letters are folded.
ToAsciiUppercase(c) ==
    IF \E i \in 1..Len(LowerLetters) : LowerLetters[i] = c
    THEN UpperLetters[CHOOSE i \in 1..Len(LowerLetters) : LowerLetters[i] = c]
    ELSE c

EqIgnoreAsciiCase(a, b) == ToAsciiUppercase(a) = ToAsciiUppercase(b)

\* The closure of `position` at the character with index k: the characters
\* from there on are zipped with those of the marker, and zip ends with the
\* shorter of the two, so a text that ends inside the marker passes.
ZipMatches(text, k) ==
    \A j \in 1..Len(VsWild) :
        k + j <= Len(text) => EqIgnoreAsciiCase(text[k + j], VsWild[j])

\* extract_pokemon_name of pokemon.rs.  `position` counts characters, and its
\* result is used as an offset in bytes: slicing off a character boundary
\* panics.  `nth` is None when the slice has no character after the marker's
\* eight.
pokemon_extract_pokemon_name(text) ==
    LET Hits == {k \in 0..(Len(text) - 1) : ZipMatches(text, k)}
    IN  IF Hits = {} THEN [kind |-> "None", val |-> <<>>]
        ELSE LET vs_pos == CHOOSE h \in Hits : \A g \in Hits : h <= g
             IN  IF ~IsCharBoundary(text, vs_pos)
                 THEN [kind |-> "Panic", val |-> <<>>]
                 ELSE LET from_vs == SliceFrom(text, vs_pos)
                      IN  IF Len(from_vs) <= Len(VsWild)
                          THEN [kind |-> "None", val |-> <<>>]
                          ELSE LET after_wild ==
                                       vs_pos + ByteLen(SubSeq(from_vs, 1, Len(VsWild)))
                                   remaining ==
                                       TrimStart(SliceFrom(text, after_wild))
                                   pokemon == FirstToken(remaining)
                               IN  IF pokemon # <<>>
                                   THEN [kind |-> "Some", val |-> pokemon]
                                   ELSE [kind |-> "None", val |-> <<>>]

\* ---------------------------------------------------------- frequency table

\* str::contains.
Contains(s, pat) == Find(s, pat) # -1

\* The keys of a set that sort_by_key(len) may put first: the shortest ones,
\* in the order the HashMap happened to enumerate them.
Shortest(keys) == {k \in keys : \A j \in keys : ByteLen(k) <= ByteLen(j)}

RECURSIVE NormalizeFromKeepsMerged(_, _, _)
\* A loop that adds the count of a key to the key it contains and keeps the
\* key as well.
NormalizeFromKeepsMerged(counts, keys, normalized) ==
    IF keys = {} THEN {normalized}
    ELSE UNION {
        LET count   == counts[key]
            targets == {nk \in DOMAIN normalized : Contains(key, nk) /\ key # nk}
        IN  IF targets = {}
            THEN NormalizeFromKeepsMerged(counts, keys \ {key},
                                          normalized @@ (key :> count))
            ELSE UNION {NormalizeFromKeepsMerged(counts, keys \ {key},
                            [normalized EXCEPT ![t] = @ + count] @@ (key :> count))
                        : t \in targets}
        : key \in Shortest(keys)}

RECURSIVE NormalizeFromDropsMerged(_, _, _)
\* A loop that leaves out a key that contains a retained key without adding
\* its count.
NormalizeFromDropsMerged(counts, keys, normalized) ==
    IF keys = {} THEN {normalized}
    ELSE UNION {
        LET count   == counts[key]
            targets == {nk \in DOMAIN normalized : Contains(key, nk) /\ key # nk}
        IN  IF targets = {}
            THEN NormalizeFromDropsMerged(counts, keys \ {key},
                                          normalized @@ (key :> count))
            ELSE NormalizeFromDropsMerged(counts, keys \ {key}, normalized)
        : key \in Shortest(keys)}

RECURSIVE NormalizeFrom(_, _, _)
\* The loop of normalize_pokemon_names over the keys still to process: the
\* set of tables it can end with.  A key is merged into the first retained key
\* it contains in the iteration order of the HashMap `normalized`, which is
\* arbitrary, so any retained key it contains can be the target.
NormalizeFrom(counts, keys, normalized) ==
    IF keys = {} THEN {normalized}
    ELSE UNION {
        LET count   == counts[key]
            targets == {nk \in DOMAIN normalized : Contains(key, nk) /\ key # nk}
        IN  IF targets = {}
            THEN NormalizeFrom(counts, keys \ {key}, normalized @@ (key :> count))
            ELSE UNION {NormalizeFrom(counts, keys \ {key},
                                      [normalized EXCEPT ![t] = @ + count])
                        : t \in targets}
        : key \in Shortest(keys)}

\* normalize_pokemon_names: the tables a call can return.
normalize_pokemon_names(counts) == NormalizeFrom(counts, DOMAIN counts, <<>>)

\* An insert(name, 1) for the entry's increment.
CountEncounterInsert(counts, name) ==
    [k \in DOMAIN counts \cup {name} |-> IF k = name THEN 1 ELSE counts[k]]

\* *text_counts.entry(name).or_insert(0) += 1
CountEncounter(counts, name) ==
    IF name \in DOMAIN counts
    THEN [counts EXCEPT ![name] = @ + 1]
    ELSE counts @@ (name :> 1)

\* An empty HashMap.
EmptyTable == <<>>

\* ------------------------------------------------------------------ inputs

\* The texts the OCR returns in the model.
TextEmpty == <<>>

TextPidgey ==
    <<"V","S","."," ","W","i","l","d"," ","P","I","D","G","E","Y">>

TextRattata ==
    <<"V","S","."," ","W","i","l","d"," ","R","A","T","T","A","T","A">>

Texts == {TextEmpty, TextPidgey, TextRattata}

\* A text whose name the OCR cut short: a name that another name contains.
TextPidge ==
    <<"V","S","."," ","W","i","l","d"," ","P","I","D","G","E">>

\* The results of check_active_window: Ok(true), Ok(false), Err.
WindowResults == {"focused", "unfocused", "error"}

\* What can happen to the query of check_active_window: hyprctl cannot be
\* run, exits with a failure status, prints what is not UTF-8 or not the JSON
\* of a window, or prints a window of the target class or of another class.
QueryOutcomes ==
    {"spawn_failed", "exit_failure", "invalid_output", "target_class",
     "other_class"}

\* check_active_window: `?` on the spawn and on both conversions, Ok(false)
\* on a failure status, else Ok(window.class == TARGET_WINDOW_CLASS).
check_active_window(outcome) ==
    IF outcome = "spawn_failed" THEN "error"
    ELSE IF outcome = "exit_failure" THEN "unfocused"
    ELSE IF outcome = "invalid_output" THEN "error"
    ELSE IF outcome = "target_class" THEN "focused"
    ELSE "unfocused"

\* The keys with a match arm, and the commands among them.
Keys == {"p", "r", "s", "n", "?", "q"}
Commands == Keys \ {"q"}

\* How far runs are explored and what is recorded of them: a long history on
\* a short clock, a long clock with a short history, and short runs that
\* record the last step, the last command, or a 'q' that waits in the queue.
Horizons ==
    {[ticks |-> MaxHist, clock |-> 0, log |-> "none"],
     [ticks |-> ShortHist, clock |-> MaxTime, log |-> "none"],
     [ticks |-> ShortHist, clock |-> 0, log |-> "steps"],
     [ticks |-> CmdHist, clock |-> 0, log |-> "commands"],
     [ticks |-> QuitHist, clock |-> LogTime, log |-> "quit"]}

\* The texts of a run: where the commands are recorded, a name is also read
\* cut short, so that the table holds names for the normalization to merge.
TextsOf(h) ==
    IF h.log = "commands" THEN {TextEmpty, TextPidgey, TextPidge} ELSE Texts

\* No step was taken yet.
NoStep == [step |-> "start", arg |-> ""]

\* No command was handled, or the loop state changed since; the command
\* handled once, or more than once in succession.
NoCmd == [key |-> "none", times |-> 0]
CmdHandled(key, last) ==
    [key |-> key, times |-> IF last.key = key THEN 2 ELSE 1]

\* No 'q' waits in the event queue; a 'q' waits behind n other events.
NoQuit == [some |-> FALSE, val |-> 0]
QuitBehind(n) == [some |-> TRUE, val |-> n]

\* No manual pause is in progress.
NoManualPause == [on |-> FALSE, at |-> 0, base |-> 0, clean |-> TRUE]

\* -------------------------------------------------------------------- Init

\* The local state of monitor_text before its loop.
InitLoop ==
    /\ cfg \in [empty_threshold : 0..MaxThreshold, window_detection : BOOLEAN]
    /\ horizon \in Horizons
    /\ text_counts = EmptyTable
    /\ last_text = <<>>
    /\ pending_pokemon = NoName
    /\ no_pattern_count = 0
    /\ paused = FALSE
    /\ window_paused = FALSE
    /\ total_paused_duration = 0
    /\ pause_start = NoInstant
    /\ now = 0
    /\ pc = "window"
    /\ hist = <<>>
    /\ manual_pause = NoManualPause
    /\ paused_time = 0
    /\ last_step = NoStep
    /\ last_cmd = NoCmd
    /\ quit_pending = NoQuit

\* No text is handed to the extractions.
NoExtraction ==
    [phase |-> "idle", text |-> <<>>,
     main |-> [kind |-> "Unset", val |-> <<>>],
     lib |-> [kind |-> "Unset", val |-> <<>>]]

\* No table is handed to the normalisation.
NoNormalization ==
    [phase |-> "idle", input |-> <<>>, once |-> <<>>, twice |-> <<>>]

\* No image is handed to the preprocessing.
NoPreprocessing ==
    [phase |-> "idle", image |-> [width |-> 0, height |-> 0, pixels |-> <<>>],
     stretched |-> <<>>, threshold |-> 0,
     output |-> [width |-> 0, height |-> 0, pixels |-> <<>>]]

\* The pure functions are not being applied.
NoCalls ==
    /\ extraction = NoExtraction
    /\ normalization = NoNormalization
    /\ preprocessing = NoPreprocessing

Init == InitLoop /\ NoCalls

\* pause_time.elapsed(): the time since an instant.
Elapsed(t) == now - t

\* The loop state that the commands act on.
LoopView ==
    <<paused, window_paused, pending_pokemon, no_pattern_count, text_counts>>

\* The record of a step of the loop: the step itself, and the last command
\* for as long as no later step changes the loop state.
Observe(step, arg) ==
    /\ last_step' = IF horizon.log = "steps"
                    THEN [step |-> step, arg |-> arg] ELSE last_step
    /\ last_cmd' = IF horizon.log # "commands" THEN last_cmd
                   ELSE IF step = "key" /\ arg \in Commands
                   THEN CmdHandled(arg, last_cmd)
                   ELSE IF LoopView' = LoopView THEN last_cmd
                   ELSE NoCmd

\* event::read takes the event at the head of the queue: a 'q' that waits is
\* read once the events before it are.  Where the waiting 'q' is recorded, no
\* other 'q' is read.
KeyRead(key) ==
    /\ IF key = "q"
       THEN IF horizon.log = "quit"
            THEN quit_pending.some /\ quit_pending.val = 0
            ELSE TRUE
       ELSE quit_pending.some => quit_pending.val > 0
    /\ quit_pending' = IF ~quit_pending.some THEN quit_pending
                       ELSE IF key = "q" THEN NoQuit
                       ELSE QuitBehind(quit_pending.val - 1)

\* A resume that forgets to add the pause that ends.
DrainPauseDropped == total_paused_duration

\* A resume that adds the time since the start of the run.
DrainPauseFromStart == total_paused_duration + Elapsed(0)

\* The accumulated pause after `if let Some(pause_time) = pause_start
\* { total_paused_duration += pause_time.elapsed(); }`.
DrainPause ==
    IF pause_start.some THEN total_paused_duration + Elapsed(pause_start.val)
    ELSE total_paused_duration

\* ----------------------------------------------------------- window check

\* The window detection check at the top of the loop body.
WindowCheck(r, outcome) ==
    /\ pc = "window"
    /\ pc' = "keys"
    /\ IF ~cfg.window_detection \/ r = "error"
       THEN UNCHANGED <<window_paused, pause_start, total_paused_duration>>
       ELSE IF r = "unfocused" /\ ~window_paused
       THEN /\ window_paused' = TRUE
            /\ pause_start' = SomeInstant(now)
            /\ UNCHANGED total_paused_duration
       ELSE IF r = "focused" /\ window_paused
       THEN /\ total_paused_duration' = DrainPause
            /\ pause_start' = NoInstant
            /\ window_paused' = FALSE
       ELSE UNCHANGED <<window_paused, pause_start, total_paused_duration>>
    /\ manual_pause' = IF manual_pause.on /\ window_paused'
                       THEN [manual_pause EXCEPT !.clean = FALSE]
                       ELSE manual_pause
    /\ UNCHANGED <<cfg, text_counts, last_text, pending_pokemon,
                   no_pattern_count, paused, now, hist, horizon,
                   paused_time>>
    /\ UNCHANGED <<quit_pending, extraction, normalization, preprocessing>>
    /\ Observe("window", IF cfg.window_detection THEN outcome
                                                 ELSE "not_queried")

\* ------------------------------------------------------- keyboard commands

\* event::poll reports no key event, or a key that no arm matches.
KeyNone ==
    /\ pc = "keys"
    /\ pc' = "sample"
    /\ UNCHANGED <<cfg, text_counts, last_text, pending_pokemon,
                   no_pattern_count, paused, window_paused,
                   total_paused_duration, pause_start, now, hist, horizon,
                   manual_pause, paused_time>>
    /\ UNCHANGED <<extraction, normalization, preprocessing>>
    /\ KeyRead("none")
    /\ Observe("key", "none")

\* 'p': toggle the manual pause.
KeyPause ==
    /\ pc = "keys"
    /\ pc' = "sample"
    /\ paused' = ~paused
    /\ IF ~paused
       THEN /\ pause_start' = SomeInstant(now)
            /\ UNCHANGED total_paused_duration
       ELSE /\ total_paused_duration' = DrainPause
            /\ pause_start' = NoInstant
    /\ manual_pause' = IF ~paused
                       THEN [on |-> TRUE, at |-> now,
                             base |-> total_paused_duration,
                             clean |-> ~window_paused]
                       ELSE NoManualPause
    /\ UNCHANGED <<cfg, text_counts, last_text, pending_pokemon,
                   no_pattern_count, window_paused, now, hist, horizon,
                   paused_time>>
    /\ UNCHANGED <<extraction, normalization, preprocessing>>
    /\ KeyRead("p")
    /\ Observe("key", "p")

\* A restart that leaves the pending name in place.
KeyRestartKeepsPending ==
    /\ pc = "keys"
    /\ pc' = "sample"
    /\ text_counts' = EmptyTable
    /\ last_text' = <<>>
    /\ no_pattern_count' = 0
    /\ hist' = <<>>
    /\ UNCHANGED <<cfg, pending_pokemon, paused, window_paused,
                   total_paused_duration, pause_start, now, horizon,
                   manual_pause, paused_time>>
    /\ UNCHANGED <<extraction, normalization, preprocessing>>
    /\ KeyRead("r")
    /\ Observe("key", "r")

\* 'r': restart.
KeyRestart ==
    /\ pc = "keys"
    /\ pc' = "sample"
    /\ text_counts' = EmptyTable
    /\ last_text' = <<>>
    /\ pending_pokemon' = NoName
    /\ no_pattern_count' = 0
    /\ hist' = <<>>
    /\ UNCHANGED <<cfg, paused, window_paused, total_paused_duration,
                   pause_start, now, horizon, manual_pause,
                   paused_time>>
    /\ UNCHANGED <<extraction, normalization, preprocessing>>
    /\ KeyRead("r")
    /\ Observe("key", "r")

\* start_time.elapsed() - total_paused_duration; Duration's subtraction
\* panics when the result would be negative.
ActiveDuration == Elapsed(0) - total_paused_duration

\* 's': show the statistics.
KeyStats ==
    /\ pc = "keys"
    /\ pc' = IF ActiveDuration < 0 THEN "panicked" ELSE "sample"
    /\ UNCHANGED <<cfg, text_counts, last_text, pending_pokemon,
                   no_pattern_count, paused, window_paused,
                   total_paused_duration, pause_start, now, hist, horizon,
                   manual_pause, paused_time>>
    /\ UNCHANGED <<extraction, normalization, preprocessing>>
    /\ KeyRead("s")
    /\ Observe("key", "s")

\* 'n': normalize the names of the table.
KeyNormalize ==
    /\ pc = "keys"
    /\ pc' = "sample"
    /\ text_counts' \in normalize_pokemon_names(text_counts)
    /\ UNCHANGED <<cfg, last_text, pending_pokemon, no_pattern_count, paused,
                   window_paused, total_paused_duration, pause_start, now,
                   hist, horizon, manual_pause, paused_time>>
    /\ UNCHANGED <<extraction, normalization, preprocessing>>
    /\ KeyRead("n")
    /\ Observe("key", "n")

\* '?': show the help.
KeyHelp ==
    /\ pc = "keys"
    /\ pc' = "sample"
    /\ UNCHANGED <<cfg, text_counts, last_text, pending_pokemon,
                   no_pattern_count, paused, window_paused,
                   total_paused_duration, pause_start, now, hist, horizon,
                   manual_pause, paused_time>>
    /\ UNCHANGED <<extraction, normalization, preprocessing>>
    /\ KeyRead("?")
    /\ Observe("key", "?")

\* A 'q' after which the loop goes on.
KeyQuitGoesOn ==
    /\ pc = "keys"
    /\ pc' = "sample"
    /\ UNCHANGED <<cfg, text_counts, last_text, pending_pokemon,
                   no_pattern_count, paused, window_paused,
                   total_paused_duration, pause_start, now, hist, horizon,
                   manual_pause, paused_time>>
    /\ UNCHANGED <<extraction, normalization, preprocessing>>
    /\ KeyRead("q")
    /\ Observe("key", "q")

\* 'q': print the statistics and return.
KeyQuit ==
    /\ pc = "keys"
    /\ pc' = IF ActiveDuration < 0 THEN "panicked" ELSE "done"
    /\ UNCHANGED <<cfg, text_counts, last_text, pending_pokemon,
                   no_pattern_count, paused, window_paused,
                   total_paused_duration, pause_start, now, hist, horizon,
                   manual_pause, paused_time>>
    /\ UNCHANGED <<extraction, normalization, preprocessing>>
    /\ KeyRead("q")
    /\ Observe("key", "q")

\* ------------------------------------------------------------- sample tick

\* A pause test that looks at the manual pause only.
LoopPausedManualOnly == paused

\* The test of `if paused || window_paused`.
LoopPaused == paused \/ window_paused

\* `if paused || window_paused { sleep; continue; }`
PausedSkip ==
    /\ pc = "sample"
    /\ LoopPaused
    /\ pc' = "window"
    /\ UNCHANGED <<cfg, text_counts, last_text, pending_pokemon,
                   no_pattern_count, paused, window_paused,
                   total_paused_duration, pause_start, now, hist, horizon,
                   manual_pause, paused_time>>
    /\ UNCHANGED <<quit_pending, extraction, normalization, preprocessing>>
    /\ Observe("skip", "")

\* A failed capture that is counted as a tick without a name.
CaptureFailCountsEmpty ==
    /\ pc = "sample"
    /\ ~LoopPaused
    /\ pc' = "window"
    /\ no_pattern_count' = no_pattern_count + 1
    /\ UNCHANGED <<cfg, text_counts, last_text, pending_pokemon,
                   paused, window_paused,
                   total_paused_duration, pause_start, now, hist, horizon,
                   manual_pause, paused_time>>
    /\ UNCHANGED <<quit_pending, extraction, normalization, preprocessing>>
    /\ Observe("capture_failed", "")

\* capture_region returns Err: the error is logged and the tick skipped.
CaptureFail ==
    /\ pc = "sample"
    /\ ~LoopPaused
    /\ pc' = "window"
    /\ UNCHANGED <<cfg, text_counts, last_text, pending_pokemon,
                   no_pattern_count, paused, window_paused,
                   total_paused_duration, pause_start, now, hist, horizon,
                   manual_pause, paused_time>>
    /\ UNCHANGED <<quit_pending, extraction, normalization, preprocessing>>
    /\ Observe("capture_failed", "")

\* extract_text returns Err: the error is logged.
OcrFail ==
    /\ pc = "sample"
    /\ ~LoopPaused
    /\ pc' = "window"
    /\ UNCHANGED <<cfg, text_counts, last_text, pending_pokemon,
                   no_pattern_count, paused, window_paused,
                   total_paused_duration, pause_start, now, hist, horizon,
                   manual_pause, paused_time>>
    /\ UNCHANGED <<quit_pending, extraction, normalization, preprocessing>>
    /\ Observe("ocr_failed", "")

\* A should_update that keeps a pending name whatever is extracted.
ShouldUpdateOnlyIdle(pending, name) == ~pending.some

\* should_update: no name is pending, or the pending name differs.
ShouldUpdate(pending, name) == ~pending.some \/ pending.val # name

\* The threshold test with > for >=: one tick late.
ThresholdReachedLate(count) == count > cfg.empty_threshold

\* The threshold test one tick early.
ThresholdReachedEarly(count) == count + 1 >= cfg.empty_threshold

\* `no_pattern_count >= config.empty_threshold`
ThresholdReached(count) == count >= cfg.empty_threshold

\* What a sample tick leaves in the history: the text, the name extracted, the
\* name counted, the pending name before and after, the counter after.
TickRecord(text, name, counted, after, count) ==
    [text |-> text, name |-> name, counted |-> counted,
     before |-> pending_pokemon, after |-> after, count |-> count]

\* A match that counts the name it supersedes.
TickMatchCountsAbandoned(text, name) ==
    LET superseded == pending_pokemon.some /\ pending_pokemon.val # name
    IN  /\ no_pattern_count' = 0
        /\ pending_pokemon' = SomeName(name)
        /\ last_text' = text
        /\ text_counts' = IF superseded
                          THEN CountEncounter(text_counts, pending_pokemon.val)
                          ELSE text_counts
        /\ hist' = Append(hist, TickRecord(text, SomeName(name),
                              IF superseded THEN pending_pokemon ELSE NoName,
                              SomeName(name), 0))

\* extract_text returns Ok(text) and a name is extracted from it.
TickMatch(text, name) ==
    LET pending == IF ShouldUpdate(pending_pokemon, name)
                   THEN SomeName(name) ELSE pending_pokemon
    IN  /\ no_pattern_count' = 0
        /\ pending_pokemon' = pending
        /\ last_text' = text
        /\ hist' = Append(hist, TickRecord(text, SomeName(name), NoName, pending, 0))
        /\ UNCHANGED text_counts

\* A read of the pending name that leaves it in place.
PendingKept == pending_pokemon

\* What pending_pokemon.take() leaves in pending_pokemon.
PendingTaken == NoName

\* extract_text returns Ok(text) and no name is extracted from it.
TickNoMatch(text) ==
    LET count == no_pattern_count + 1
    IN  IF ThresholdReached(count)
        THEN /\ pending_pokemon' = PendingTaken
             /\ text_counts' = IF pending_pokemon.some
                               THEN CountEncounter(text_counts, pending_pokemon.val)
                               ELSE text_counts
             /\ last_text' = <<>>
             /\ no_pattern_count' = 0
             /\ hist' = Append(hist, TickRecord(text, NoName, pending_pokemon, PendingTaken, 0))
        ELSE /\ no_pattern_count' = count
             /\ last_text' = IF text # last_text /\ ByteLen(text) >= 10
                             THEN text ELSE last_text
             /\ hist' = Append(hist, TickRecord(text, NoName, NoName, pending_pokemon, count))
             /\ UNCHANGED <<pending_pokemon, text_counts>>

\* One capture, OCR and state update.
SampleTick(text) ==
    /\ pc = "sample"
    /\ ~LoopPaused
    /\ Len(hist) < horizon.ticks
    /\ LET r == extract_pokemon_name(text)
       IN  IF r.kind = "Panic"
           THEN /\ pc' = "panicked"
                /\ UNCHANGED <<text_counts, last_text, pending_pokemon,
                               no_pattern_count, hist>>
           ELSE /\ pc' = "window"
                /\ IF r.kind = "Some" THEN TickMatch(text, r.val)
                                      ELSE TickNoMatch(text)
    /\ UNCHANGED <<cfg, paused, window_paused, total_paused_duration,
                   pause_start, now, horizon, manual_pause,
                   paused_time>>
    /\ UNCHANGED <<quit_pending, extraction, normalization, preprocessing>>
    /\ Observe("tick", "")

\* ------------------------------------------------------------------- clock

\* Time passes: in thread::sleep and in the calls of the loop body.
ClockAdvance ==
    /\ pc \notin {"done", "panicked"}
    /\ now < horizon.clock
    /\ now' = now + 1
    /\ paused_time' = IF paused \/ window_paused THEN paused_time + 1
                                                 ELSE paused_time
    /\ UNCHANGED <<cfg, text_counts, last_text, pending_pokemon,
                   no_pattern_count, paused, window_paused,
                   total_paused_duration, pause_start, pc, hist, horizon,
                   manual_pause>>
    /\ UNCHANGED <<last_step, last_cmd, quit_pending, extraction,
                   normalization, preprocessing>>

\* 'q' is pressed: the event waits in the queue, behind the events that
\* were not read yet.
QuitPressed(n) ==
    /\ horizon.log = "quit"
    /\ pc \notin {"done", "panicked"}
    /\ ~quit_pending.some
    /\ quit_pending' = QuitBehind(n)
    /\ UNCHANGED <<cfg, text_counts, last_text, pending_pokemon,
                   no_pattern_count, paused, window_paused,
                   total_paused_duration, pause_start, now, pc, hist, horizon,
                   manual_pause, paused_time, last_step, last_cmd,
                   extraction, normalization, preprocessing>>

Next ==
    \/ \E outcome \in QueryOutcomes :
          WindowCheck(check_active_window(outcome), outcome)
    \/ KeyNone
    \/ KeyPause
    \/ KeyRestart
    \/ KeyStats
    \/ KeyNormalize
    \/ KeyHelp
    \/ KeyQuit
    \/ PausedSkip
    \/ CaptureFail
    \/ OcrFail
    \/ \E text \in TextsOf(horizon) : SampleTick(text)
    \/ ClockAdvance
    \/ \E n \in 0..MaxAhead : QuitPressed(n)

Spec == Init /\ [][Next]_vars

\* The runs that record the 'q' that waits.
InitLive == Init /\ horizon.log = "quit"

\* The steps of the loop itself: the thread goes on to its next statement.
LoopStep ==
    \/ \E outcome \in QueryOutcomes :
          WindowCheck(check_active_window(outcome), outcome)
    \/ KeyNone
    \/ KeyPause
    \/ KeyRestart
    \/ KeyStats
    \/ KeyNormalize
    \/ KeyHelp
    \/ KeyQuit
    \/ PausedSkip
    \/ CaptureFail
    \/ OcrFail
    \/ \E text \in TextsOf(horizon) : SampleTick(text)

\* The loop with a thread that keeps running.
SpecLive == InitLive /\ [][Next]_vars /\ WF_vars(LoopStep)

\* ------------------------------------------------- the extractions alone

\* The texts handed to the extractions: what precedes the marker, the marker
\* in a mix of cases, whole, cut or with a letter outside ASCII, the
\* whitespace after it, a token, and what follows the token.
TextBefore ==
    {<<>>, <<"x", " ">>, <<"U+00E9", " ">>, <<"U+0131", " ">>,
     <<"U+00E9", "U+00E9">>, <<"U+00DF">>, <<"U+0390">>}

TextMarker ==
    {<<>>,
     <<"V","S","."," ","W","I","L","D">>,
     <<"v","s","."," ","w","i","l","d">>,
     <<"V","s","."," ","W","i","l","d">>,
     <<"V","S","."," ","W","I","L">>,
     <<"V","S","."," ","W","U+0131","L","D">>}

TextSpace == {<<>>, <<" ">>, <<" ", "\n">>}

TextToken == {<<>>, <<"A">>, <<"B", "c", "!">>, <<"U+00E9", "d">>}

TextAfter == {<<>>, <<" ", "Z">>}

ExtractTexts ==
    {b \o m \o w \o t \o a :
        b \in TextBefore, m \in TextMarker, w \in TextSpace,
        t \in TextToken, a \in TextAfter}

\* The loop is not entered; a text is handed to the extractions.
InitExtract ==
    /\ InitLoop
    /\ cfg = [empty_threshold |-> 0, window_detection |-> FALSE]
    /\ horizon.ticks = MaxHist
    /\ \E text \in ExtractTexts :
          extraction = [NoExtraction EXCEPT !.phase = "input", !.text = text]
    /\ normalization = NoNormalization
    /\ preprocessing = NoPreprocessing

\* Both extractions are applied to the text.
Extract ==
    /\ extraction.phase = "input"
    /\ extraction' =
          [phase |-> "output", text |-> extraction.text,
           main |-> extract_pokemon_name(extraction.text),
           lib |-> pokemon_extract_pokemon_name(extraction.text)]
    /\ UNCHANGED <<cfg, text_counts, last_text, pending_pokemon,
                   no_pattern_count, paused, window_paused,
                   total_paused_duration, pause_start, now, pc, hist, horizon,
                   manual_pause, paused_time, last_step, last_cmd,
                   quit_pending, normalization, preprocessing>>

SpecExtract == InitExtract /\ [][Extract]_vars

\* ------------------------------------------------------------ the history

\* The sample ticks recorded.
Ticks == 1..Len(hist)

\* Tick k extracted no name.
NoMatchAt(k) == ~hist[k].name.some

\* Every tick of a..b extracted no name.
NoMatchRun(a, b) == \A k \in a..b : NoMatchAt(k)

\* No tick of a..b counted a name.
NoCountIn(a, b) == \A k \in a..b : ~hist[k].counted.some

Pidgey == <<"P","I","D","G","E","Y">>

Rattata == <<"R","A","T","T","A","T","A">>

\* ---------------------------------------------------------------------- C1

\* C1: from idle (no pending name), for every empty_threshold >= 1, a tick that
\* extracts A, a second tick that extracts A and empty_threshold no-match
\* ticks count A exactly once, at the last of these ticks and not before, and
\* leave no pending name and the empty counter at 0.
C1_OneCountAtLastEmptyTick ==
    cfg.empty_threshold >= 1 =>
        \A i \in Ticks :
            LET j == i + 1 + cfg.empty_threshold
            IN  (/\ j <= Len(hist)
                 /\ ~hist[i].before.some
                 /\ hist[i].name.some
                 /\ hist[i + 1].name = hist[i].name
                 /\ NoMatchRun(i + 2, j))
                => /\ NoCountIn(i, j - 1)
                   /\ hist[j].counted = hist[i].name
                   /\ ~hist[j].after.some
                   /\ hist[j].count = 0

\* The sequence of C1 has run with the largest threshold, and its last tick
\* has just counted the name.
C1_Witness ==
    /\ cfg.empty_threshold = MaxThreshold
    /\ Len(hist) >= 2 + MaxThreshold
    /\ LET j == Len(hist)
           i == j - 1 - MaxThreshold
       IN  /\ ~hist[i].before.some
           /\ hist[i].name.some
           /\ hist[i + 1].name = hist[i].name
           /\ NoMatchRun(i + 2, j)
           /\ hist[j].counted.some
    /\ ~pending_pokemon.some
    /\ no_pattern_count = 0

\* ---------------------------------------------------------------------- C2

\* Name n was extracted by two consecutive ticks before tick j and has been
\* the pending name since.
ReachedActive(n, j) ==
    \E i \in Ticks :
        /\ i + 1 < j
        /\ hist[i].name = SomeName(n)
        /\ hist[i + 1].name = SomeName(n)
        /\ \A k \in (i + 1)..(j - 1) : hist[k].after = SomeName(n)

\* C2 as claimed: a name is counted only if two consecutive ticks extracted
\* it; a name seen in only one tick is never counted.
C2_CountedOnlyAfterTwoTicks ==
    \A j \in Ticks :
        hist[j].counted.some => ReachedActive(hist[j].counted.val, j)

\* C2 as amended: the name counted is the name of the last tick that
\* extracted one, with nothing but no-match ticks since, so a name that was
\* superseded is not counted; and a name that one tick extracted from idle
\* and empty_threshold >= 1 no-match ticks follow is counted at the last of
\* them.
C2_CountedIsLastExtracted ==
    /\ \A j \in Ticks :
        hist[j].counted.some =>
            \E i \in 1..(j - 1) :
                /\ hist[i].name = hist[j].counted
                /\ NoMatchRun(i + 1, j)
    /\ cfg.empty_threshold >= 1 =>
        \A i \in Ticks :
            LET j == i + cfg.empty_threshold
            IN  (/\ j <= Len(hist)
                 /\ ~hist[i].before.some
                 /\ hist[i].name.some
                 /\ NoMatchRun(i + 1, j))
                => hist[j].counted = hist[i].name

\* A name has been counted that only one tick extracted, and another name
\* was superseded before it without being counted.
C2_Witness ==
    \E i, j \in Ticks :
        /\ i + 1 < j
        /\ hist[i].name.some
        /\ hist[i + 1].name.some
        /\ hist[i + 1].name # hist[i].name
        /\ NoMatchRun(i + 2, j)
        /\ hist[j].counted = hist[i + 1].name
        /\ NoCountIn(1, j - 1)

\* ---------------------------------------------------------------------- C3

\* C3: between any two ticks that count there is a tick that extracted a
\* name.
C3_NoDoubleCount ==
    \A i, j \in Ticks :
        (i < j /\ hist[i].counted.some /\ hist[j].counted.some)
        => \E k \in (i + 1)..(j - 1) : hist[k].name.some

\* Two counts have been emitted and a no-match tick has followed the second.
C3_Witness ==
    \E i, j \in Ticks :
        /\ i < j
        /\ j < Len(hist)
        /\ hist[i].counted.some
        /\ hist[j].counted.some
        /\ NoMatchRun(j + 1, Len(hist))

\* ---------------------------------------------------------------------- C4

\* Before tick i the phase is Active{n}: two consecutive ticks extracted n and
\* every tick since extracted a name and left n pending.
ActiveBefore(n, i) ==
    \E p \in Ticks :
        /\ p + 1 < i
        /\ hist[p].name = SomeName(n)
        /\ hist[p + 1].name = SomeName(n)
        /\ \A k \in (p + 1)..(i - 1) :
            hist[k].name.some /\ hist[k].after = SomeName(n)

\* The first tick after i that counts a name, 0 when there is none.
NextCount(i) ==
    LET Counting == {j \in Ticks : j > i /\ hist[j].counted.some}
    IN  IF Counting = {} THEN 0
        ELSE CHOOSE j \in Counting : \A k \in Counting : j <= k

\* C4 as claimed: once n was extracted by two consecutive ticks, a tick that
\* extracts any name leaves n pending, and the count that ends the event is
\* for n.
C4_ActiveNameKept ==
    \A i \in Ticks :
        (hist[i].name.some /\ hist[i].before.some
            /\ ActiveBefore(hist[i].before.val, i))
        => /\ hist[i].after = hist[i].before
           /\ (NextCount(i) # 0 /\ NoMatchRun(i + 1, NextCount(i)))
                => hist[NextCount(i)].counted = hist[i].before

\* C4 as amended: once n was extracted by two consecutive ticks, a tick that
\* extracts n again leaves n pending, and a tick that extracts a different m
\* makes m the pending name; the count that ends the event is for the name
\* that tick extracted when only no-match ticks follow it.
C4_ActiveNameReplaced ==
    \A i \in Ticks :
        (hist[i].name.some /\ hist[i].before.some
            /\ ActiveBefore(hist[i].before.val, i))
        => /\ hist[i].after = hist[i].name
           /\ ~hist[i].counted.some
           /\ (NextCount(i) # 0 /\ NoMatchRun(i + 1, NextCount(i)))
                => hist[NextCount(i)].counted = hist[i].name

\* Two consecutive ticks extracted n, the next extracted another name m, and
\* the event has ended with a count for m.
C4_Witness ==
    \E i \in Ticks :
        /\ hist[i].name.some
        /\ hist[i].before.some
        /\ hist[i].name # hist[i].before
        /\ ActiveBefore(hist[i].before.val, i)
        /\ NextCount(i) # 0
        /\ hist[NextCount(i)].counted = hist[i].name

\* ---------------------------------------------------------------------- C5

\* C5: a tick that extracts a name different from the pending one makes the
\* new name pending in that tick and counts nothing, and the abandoned name
\* is not counted afterwards unless a later tick extracts it again.
C5_NewNameSupersedes ==
    \A i \in Ticks :
        (hist[i].name.some /\ hist[i].before.some
            /\ hist[i].name # hist[i].before)
        => /\ hist[i].after = hist[i].name
           /\ ~hist[i].counted.some
           /\ \A j \in Ticks :
                (j > i /\ hist[j].counted = hist[i].before)
                => \E k \in (i + 1)..(j - 1) : hist[k].name = hist[i].before

\* A name was superseded after a no-match tick had already been counted
\* toward the end of its event, and the new name has since been counted.
C5_Witness ==
    \E i \in Ticks :
        /\ i > 1
        /\ hist[i].name.some
        /\ hist[i].before.some
        /\ hist[i].name # hist[i].before
        /\ NoMatchAt(i - 1)
        /\ hist[i - 1].count >= 1
        /\ NextCount(i) # 0

\* ---------------------------------------------------------------------- C6

\* C6: for empty_threshold >= 2, a tick that extracts a name counts nothing
\* and restarts the empty count from zero, a run of fewer than
\* empty_threshold no-match ticks that ends at such a tick counts nothing,
\* and a tick counts only when it completes empty_threshold consecutive
\* no-match ticks since the last tick that extracted a name.
C6_CountOnlyAfterThresholdEmpties ==
    cfg.empty_threshold >= 2 =>
        LET th == cfg.empty_threshold
        IN  /\ \A i \in Ticks :
                hist[i].name.some => ~hist[i].counted.some /\ hist[i].count = 0
            /\ \A a, b \in Ticks :
                (/\ a <= b
                 /\ b < Len(hist)
                 /\ b - a + 1 < th
                 /\ a = 1 \/ hist[a - 1].name.some
                 /\ NoMatchRun(a, b)
                 /\ hist[b + 1].name.some)
                => NoCountIn(a, b + 1)
            /\ \A j \in Ticks :
                hist[j].counted.some
                => /\ j - th >= 1
                   /\ hist[j - th].name.some
                   /\ NoMatchRun(j - th + 1, j)

\* With a threshold of 2 or more, a run of no-match ticks one short of the
\* threshold was cut by a match, and a count was emitted later.
C6_Witness ==
    /\ cfg.empty_threshold >= 2
    /\ \E a \in Ticks :
        LET b == a + cfg.empty_threshold - 2
        IN  /\ b < Len(hist)
            /\ a > 1
            /\ hist[a - 1].name.some
            /\ NoMatchRun(a, b)
            /\ hist[b + 1].name.some
            /\ NextCount(b + 1) # 0

\* ---------------------------------------------------------------------- C7

\* The name the tick that has just been recorded counted, if any.
JustCounted == hist'[Len(hist')].counted

\* C7: a sampling step that counts name n adds exactly 1 to the entry of n,
\* creating it at 1, and leaves every other entry as it was; a sampling step
\* that counts nothing leaves the table as it was.
C7_TableChangesByOneCount ==
    [][pc = "sample" =>
        IF Len(hist') = Len(hist) + 1 /\ JustCounted.some
        THEN LET n == JustCounted.val
             IN  /\ DOMAIN text_counts' = DOMAIN text_counts \cup {n}
                 /\ text_counts'[n] =
                        (IF n \in DOMAIN text_counts THEN text_counts[n] ELSE 0) + 1
                 /\ \A k \in DOMAIN text_counts \ {n} :
                        text_counts'[k] = text_counts[k]
        ELSE text_counts' = text_counts]_vars

\* A tick has just raised an entry that existed, beside another entry.
C7_Witness ==
    /\ hist # <<>>
    /\ hist[Len(hist)].counted.some
    /\ hist[Len(hist)].counted.val \in DOMAIN text_counts
    /\ text_counts[hist[Len(hist)].counted.val] >= 2
    /\ Cardinality(DOMAIN text_counts) >= 2

\* ---------------------------------------------------------------------- C8

Scenario ==
    <<TextEmpty, TextPidgey, TextPidgey, TextEmpty, TextEmpty, TextRattata>>

\* The ticks recorded are the first ticks of the scenario.
OnScenario ==
    /\ Len(hist) <= Len(Scenario)
    /\ \A k \in Ticks : hist[k].text = Scenario[k]

\* C8: with empty_threshold = 2, from the initial state, the texts "",
\* "VS. Wild PIDGEY", "VS. Wild PIDGEY", "", "", "VS. Wild RATTATA" leave the
\* table empty up to the 4th tick and {PIDGEY: 1} after the 5th, and after
\* the 6th RATTATA is pending and the table is still {PIDGEY: 1}.
C8_Scenario ==
    (cfg.empty_threshold = 2 /\ OnScenario) =>
        /\ Len(hist) < 5 => text_counts = EmptyTable
        /\ Len(hist) >= 5 => text_counts = (Pidgey :> 1)
        /\ Len(hist) = 6 => pending_pokemon = SomeName(Rattata)

\* The six ticks of the scenario have run.
C8_Witness ==
    /\ cfg.empty_threshold = 2
    /\ OnScenario
    /\ Len(hist) = 6
    /\ pc = "window"

\* ---------------------------------------------------------------------- C9

\* C9: a pause source that becomes active while the other one is active
\* leaves the recorded pause start as it is.
C9_PauseStartKeptWhenAlreadyPaused ==
    [][(\/ ~paused /\ paused' /\ window_paused
        \/ ~window_paused /\ window_paused' /\ paused)
       => pause_start' = pause_start]_vars

\* --------------------------------------------------------------------- C10

\* C10: when the manual pause is switched off and the window pause was
\* inactive since it was switched on, the accumulated paused duration is its
\* value at the switching on plus the time elapsed since, and no pause start
\* stays recorded.
C10_ManualPauseAddsElapsed ==
    [][(pc = "keys" /\ paused /\ ~paused' /\ manual_pause.clean)
       => /\ total_paused_duration' =
                manual_pause.base + (now - manual_pause.at)
          /\ ~pause_start'.some]_vars

\* Without window detection, manual pauses have ended and added at least two
\* instants.
C10_Witness ==
    /\ ~cfg.window_detection
    /\ ~paused
    /\ ~manual_pause.on
    /\ ~pause_start.some
    /\ total_paused_duration >= 2

\* --------------------------------------------------------------------- C11

\* C11: the accumulated paused duration never exceeds the time during which
\* the loop was paused by at least one source, which never exceeds the time
\* elapsed since the start, so the subtraction of the active duration never
\* underflows.
C11_PausesNotDoubleCounted ==
    /\ total_paused_duration <= paused_time
    /\ paused_time <= Elapsed(0)
    /\ ActiveDuration >= 0
    /\ pc # "panicked"

\* The manual pause was switched on and off during a window pause that is
\* still in progress, and the time of the overlap was accumulated.
C11_Witness ==
    /\ window_paused
    /\ ~paused
    /\ ~pause_start.some
    /\ total_paused_duration >= 1
    /\ paused_time > total_paused_duration

\* --------------------------------------------------------------------- C12

\* C12: the active duration that show-stats and quit report when they are
\* handled is the time elapsed since the start, minus the accumulated paused
\* duration, minus the time since the current pause started when the loop is
\* paused; that is the time during which the loop was not paused.
C12_ActiveDurationExcludesPauses ==
    pc = "keys" =>
        /\ ActiveDuration =
               Elapsed(0) - total_paused_duration
               - (IF pause_start.some /\ (paused \/ window_paused)
                  THEN Elapsed(pause_start.val) ELSE 0)
        /\ ActiveDuration = Elapsed(0) - paused_time

\* --------------------------------------------------------------------- C13

\* The part of the loop state that the sampling step works on.
SamplingState ==
    <<pending_pokemon, no_pattern_count, text_counts, last_text, hist>>

\* C13: the loop is paused exactly when the manual pause or the window pause
\* is active.  A step of the sampling stage taken while either is active
\* captures nothing and leaves the pending name, the empty counter and the
\* table as they are, also when the manual pause was switched off during a
\* window pause; while neither is active the sampling stage is not skipped.
C13_PausedByEitherSource ==
    [][/\ (pc = "sample" /\ (paused \/ window_paused))
            => /\ SamplingState' = SamplingState
               /\ pc' \in {"sample", "window"}
       /\ (pc = "sample" /\ ~paused /\ ~window_paused)
            => /\ ~ENABLED PausedSkip
               /\ Len(hist) < horizon.ticks => ENABLED SampleTick(TextEmpty)]_vars

\* The manual pause was switched off during a window pause that goes on, and
\* the sampling stage was skipped while a name was pending.
C13_Witness ==
    /\ window_paused
    /\ ~paused
    /\ ~pause_start.some
    /\ pending_pokemon.some
    /\ pc = "window"

\* --------------------------------------------------------------------- C14

\* The step that is taken handles the key, where the steps are recorded.
Handles(key) ==
    /\ pc = "keys"
    /\ last_step'.step = "key"
    /\ last_step'.arg = key

\* The step that is taken is a sample tick that counts nothing.
TickWithoutCount ==
    /\ Len(hist') = Len(hist) + 1
    /\ ~hist'[Len(hist')].counted.some

\* The step that is taken begins or ends the manual or the window pause.
PauseChanges == paused' # paused \/ window_paused' # window_paused

\* C14: a restart, in any state, empties the table and leaves no pending name
\* and the empty counter at 0, so that no count is emitted for the name that
\* was pending; a sample tick that counts nothing, and the beginning and the
\* end of a pause, leave the table as it is.
C14_RestartClearsOthersKeepTable ==
    [][/\ Handles("r") => /\ text_counts' = EmptyTable
                          /\ pending_pokemon' = NoName
                          /\ no_pattern_count' = 0
       /\ (TickWithoutCount \/ PauseChanges)
            => text_counts' = text_counts]_vars

\* A restart was handled during a manual pause, and the pause goes on.
C14_Witness ==
    /\ last_step = [step |-> "key", arg |-> "r"]
    /\ pc = "sample"
    /\ paused
    /\ pause_start.some
    /\ text_counts = EmptyTable
    /\ pending_pokemon = NoName
    /\ no_pattern_count = 0

\* --------------------------------------------------------------------- C15

\* C15: a restart resets the pause accounting: after it the accumulated
\* paused duration is zero and no pause start is recorded.
C15_RestartResetsPauseAccounting ==
    [][Handles("r") => /\ total_paused_duration' = 0
                       /\ ~pause_start'.some]_vars

\* --------------------------------------------------------------------- C16

\* The step that is taken is a tick of the unpaused loop that records no
\* sample: the capture or the OCR call failed.
TickFails ==
    /\ pc = "sample"
    /\ ~paused /\ ~window_paused
    /\ pc' # "sample"
    /\ hist' = hist

\* C16: a tick whose capture or OCR call fails is skipped: the pending name,
\* the empty counter and the table are the same after it as before, so the
\* failure is no no-match tick, and the loop goes on to the next tick.
C16_FailedTickSkipped ==
    [][TickFails => /\ pending_pokemon' = pending_pokemon
                    /\ no_pattern_count' = no_pattern_count
                    /\ text_counts' = text_counts
                    /\ last_text' = last_text
                    /\ pc' = "window"]_vars

\* A capture or an OCR call failed while a name was pending and no-match
\* ticks were counted, and both are as they were.
C16_Witness ==
    /\ last_step.step \in {"capture_failed", "ocr_failed"}
    /\ pc = "window"
    /\ pending_pokemon.some
    /\ no_pattern_count >= 1
    /\ no_pattern_count = hist[Len(hist)].count
    /\ pending_pokemon = hist[Len(hist)].after

\* --------------------------------------------------------------------- C17

\* The outcomes of the query that are failures of hyprctl.
FailedQueries == {"spawn_failed", "exit_failure", "invalid_output"}

\* The step that is taken is a window check whose query fails.
QueryFails ==
    /\ pc = "window"
    /\ last_step'.step = "window"
    /\ last_step'.arg \in FailedQueries

\* C17: a failed window query is treated as "focused": after the window check
\* of a tick whose query fails the loop is not paused by the window source,
\* so that a failed query never starts an auto-pause.
C17_FailedQueryMeansFocused ==
    [][QueryFails => ~window_paused']_vars

\* --------------------------------------------------------------------- C18

\* The 'q' that waits is the next event that is read.
QuitIsNext == quit_pending.some /\ quit_pending.val = 0

\* C18: a 'q' is observed at the key poll at the start of the next tick,
\* before the capture of that tick: with the 'q' next in the queue, the step
\* that leaves the poll ends the loop and changes nothing of the sampling
\* state, and a loop that ended takes no step.  With a thread that keeps
\* running, a 'q' that waits ends the loop, whether or not the loop is paused.
C18_QuitEndsLoop ==
    /\ [][/\ (pc = "keys" /\ QuitIsNext /\ pc' # pc)
               => (pc' = "done" /\ SamplingState' = SamplingState)
          /\ (pc = "keys" /\ pc' = "done") => SamplingState' = SamplingState
          /\ pc # "done"]_vars
    /\ (quit_pending.some ~> pc = "done")

\* The 'q' waited and was read while the loop was paused by both sources, after
\* a sample was taken.
C18_Witness ==
    /\ horizon.log = "quit"
    /\ pc = "done"
    /\ paused
    /\ window_paused
    /\ hist # <<>>

\* --------------------------------------------------------------------- C19

\* The step that is taken handles the command a second time in succession: it
\* was the last command handled, and no step since changed the loop state.
Repeated(key) ==
    /\ pc = "keys"
    /\ last_cmd = [key |-> key, times |-> 1]
    /\ last_cmd' = [key |-> key, times |-> 2]

\* C19: every command (pause-toggle, restart, show-stats, normalize-names,
\* show-help) is idempotent to repeat: handled twice in succession it leaves
\* the loop state (pause flags, pending name, empty counter, table) that
\* handling it once left.
C19_CommandsIdempotent ==
    [][\A key \in Commands : Repeated(key) => LoopView' = LoopView]_vars

\* C19, amended: restart, show-stats, normalize-names and show-help are
\* idempotent to repeat; a pause-toggle handled twice in succession switches
\* the manual pause back and leaves the rest of the loop state as it is.
C19_CommandsRepeated ==
    [][/\ \A key \in Commands \ {"p"} :
              Repeated(key) => LoopView' = LoopView
       /\ Repeated("p") =>
              /\ paused' = ~paused
              /\ <<window_paused, pending_pokemon, no_pattern_count,
                   text_counts>>' =
                 <<window_paused, pending_pokemon, no_pattern_count,
                   text_counts>>]_vars

\* The name read cut short.
Pidge == <<"P","I","D","G","E">>

\* The cut name and the full name were counted, the normalization merged them
\* and was handled a second time in succession.
C19_Witness ==
    /\ last_cmd = [key |-> "n", times |-> 2]
    /\ DOMAIN text_counts = {Pidge}
    /\ text_counts[Pidge] = 2
    /\ \E i \in Ticks : hist[i].counted = SomeName(Pidgey)

\* --------------------------------------------------------------------- C20

\* The marker, in any mix of ASCII cases, is at the characters k+1..k+8.
MarkerAt(text, k) ==
    /\ k + Len(VsWild) <= Len(text)
    /\ \A j \in 1..Len(VsWild) : EqIgnoreAsciiCase(text[k + j], VsWild[j])

HasMarker(text) == \E k \in 0..Len(text) : MarkerAt(text, k)

\* What follows the first occurrence of the marker.
AfterMarker(text) ==
    LET k == CHOOSE h \in 0..Len(text) :
                 MarkerAt(text, h) /\ \A g \in 0..(h - 1) : ~MarkerAt(text, g)
    IN  SubSeq(text, k + Len(VsWild) + 1, Len(text))

\* The marker is followed by whitespace and a token.
TokenFollows(text) ==
    /\ HasMarker(text)
    /\ AfterMarker(text) # <<>>
    /\ IsWhitespace(Head(AfterMarker(text)))
    /\ FirstToken(AfterMarker(text)) # <<>>

\* There is no marker, or nothing but whitespace follows it.
NothingFollows(text) ==
    HasMarker(text) => TrimStart(AfterMarker(text)) = <<>>

\* C20: for every text with the marker, in any mix of ASCII cases, followed by
\* whitespace and a token, both extractions return the token that follows the
\* first occurrence of the marker; for every text without the marker or with
\* nothing but whitespace after it, both return nothing.
C20_ExtractionReturnsToken ==
    extraction.phase = "output" =>
        \A r \in {extraction.main, extraction.lib} :
            /\ TokenFollows(extraction.text) =>
                   r = [kind |-> "Some",
                        val |-> FirstToken(AfterMarker(extraction.text))]
            /\ NothingFollows(extraction.text) =>
                   r = [kind |-> "None", val |-> <<>>]

\* --------------------------------------------------------------------- C21

\* C21: name extraction is total: for every text, also with characters of
\* more than one byte before or inside the marker, both extractions return a
\* token that is not empty or nothing, and neither fails.
C21_ExtractionTotal ==
    extraction.phase = "output" =>
        \A r \in {extraction.main, extraction.lib} :
            \/ r.kind = "Some" /\ r.val # <<>>
            \/ r = [kind |-> "None", val |-> <<>>]


\* ---------------------------------------------------- the normalisation alone

\* The counts a name of a table handed to the normalisation can have.
MaxCount == 2

\* The names of the tables handed to the normalisation: a name, names that
\* contain it, a name that contains two names neither of which contains the
\* other, and a name with the variant of it that the OCR reads now and then.
NameA == <<"A">>
NameAB == <<"A", "B">>
NameBC == <<"B", "C">>
NameABC == <<"A", "B", "C">>
NamePidgey == <<"P", "i", "d", "g", "e", "y">>
NamePidgeyBang == <<"P", "i", "d", "g", "e", "y", "!">>
NormNames == {NameA, NameAB, NameBC, NameABC, NamePidgey, NamePidgeyBang}

\* A table in which a name was counted three times and its variant twice.
PidgeyTable == (NamePidgey :> 3) @@ (NamePidgeyBang :> 2)

\* The tables handed to the normalisation.
NormTables ==
    UNION {[names -> 1..MaxCount] : names \in SUBSET NormNames}
        \cup {PidgeyTable}

\* The loop is not entered; a table is handed to the normalisation.
InitNormalize ==
    /\ InitLoop
    /\ cfg = [empty_threshold |-> 0, window_detection |-> FALSE]
    /\ horizon.ticks = MaxHist
    /\ extraction = NoExtraction
    /\ preprocessing = NoPreprocessing
    /\ \E counts \in NormTables :
          normalization =
              [NoNormalization EXCEPT !.phase = "input", !.input = counts]

\* The variables of the loop, which the pure functions leave alone.
loop_vars ==
    <<cfg, text_counts, last_text, pending_pokemon, no_pattern_count, paused,
      window_paused, total_paused_duration, pause_start, now, pc, hist,
      horizon, manual_pause, paused_time, last_step, last_cmd, quit_pending>>

\* The table is normalised.
NormalizeOnce ==
    /\ normalization.phase = "input"
    /\ \E normalized \in normalize_pokemon_names(normalization.input) :
          normalization' =
              [normalization EXCEPT !.phase = "once", !.once = normalized]
    /\ UNCHANGED <<loop_vars, extraction, preprocessing>>

\* The normalised table is normalised again.
NormalizeTwice ==
    /\ normalization.phase = "once"
    /\ \E normalized \in normalize_pokemon_names(normalization.once) :
          normalization' =
              [normalization EXCEPT !.phase = "twice", !.twice = normalized]
    /\ UNCHANGED <<loop_vars, extraction, preprocessing>>

NextNormalize == NormalizeOnce \/ NormalizeTwice

SpecNormalize == InitNormalize /\ [][NextNormalize]_vars


\* ------------------------------------------------- claims: the normalisation

\* The names of a table that the normalised table no longer holds.
Merged(input, output) == DOMAIN input \ DOMAIN output

RECURSIVE CountSum(_, _)
\* The sum of the counts a table holds for a set of names.
CountSum(counts, names) ==
    IF names = {} THEN 0
    ELSE LET n == CHOOSE x \in names : TRUE
         IN  counts[n] + CountSum(counts, names \ {n})

\* The sum of all counts of a table.
Total(counts) == CountSum(counts, DOMAIN counts)

\* A way to send every merged name to a retained name it strictly contains
\* such that every retained name holds its own count and the counts of the
\* names sent to it.
MergePlans(input, output) ==
    {f \in [Merged(input, output) -> DOMAIN output] :
        /\ \A n \in DOMAIN f : Contains(n, f[n]) /\ n # f[n]
        /\ \A m \in DOMAIN output :
              output[m] = input[m]
                  + CountSum(input, {n \in DOMAIN f : f[n] = m})}

\* C22: normalisation merges superstrings into the shorter name: no name of
\* the output strictly contains another name of the output, every retained
\* name is a name of the input, the count of every name that was merged has
\* been added to a retained name it contains, and the table
\* {"Pidgey": 3, "Pidgey!": 2} normalises to {"Pidgey": 5}.
C22_SuperstringsMerged ==
    normalization.phase = "once" =>
        LET input  == normalization.input
            output == normalization.once
        IN  /\ \A n \in DOMAIN output, m \in DOMAIN output :
                  Contains(n, m) => n = m
            /\ DOMAIN output \subseteq DOMAIN input
            /\ MergePlans(input, output) # {}
            /\ input = PidgeyTable => output = (NamePidgey :> 5)

\* A table in which a name contains a name that was itself merged has been
\* normalised, and so has the table of the example.
C22_Witness ==
    /\ normalization.phase = "once"
    /\ {NameAB, NameABC} \subseteq Merged(normalization.input,
                                          normalization.once)
    /\ NameA \in DOMAIN normalization.once


\* C23: normalisation is idempotent: normalising a normalised table returns
\* it as it is.
C23_NormalizeIdempotent ==
    normalization.phase = "twice" => normalization.twice = normalization.once

\* A table from which names were merged has been normalised a second time.
C23_Witness ==
    /\ normalization.phase = "twice"
    /\ Cardinality(Merged(normalization.input, normalization.once)) >= 2
    /\ Cardinality(DOMAIN normalization.once) >= 2


\* The retained names a merged name strictly contains.
RetainedIn(name, output) ==
    {m \in DOMAIN output : Contains(name, m) /\ name # m}

\* C27: normalisation is deterministic in its merge target: a name that
\* contains two or more retained names has its count merged into the shortest
\* of them, the one inserted first, and the same input table always gives the
\* same output table.
C27_MergeTargetDetermined ==
    normalization.phase = "once" =>
        LET input  == normalization.input
            output == normalization.once
        IN  /\ normalize_pokemon_names(input) = {output}
            /\ \E f \in MergePlans(input, output) :
                  \A n \in DOMAIN f : f[n] \in Shortest(RetainedIn(n, output))

\* C29: normalisation conserves the counts: the counts of the output table
\* add up to what the counts of the input table add up to, and every name of
\* the output is a name of the input.
C29_CountsConserved ==
    normalization.phase \in {"once", "twice"} =>
        /\ Total(normalization.once) = Total(normalization.input)
        /\ DOMAIN normalization.once \subseteq DOMAIN normalization.input
        /\ normalization.phase = "twice" =>
              /\ Total(normalization.twice) = Total(normalization.once)
              /\ DOMAIN normalization.twice \subseteq DOMAIN normalization.once

\* A table from which a name with a count of two or more was merged has been
\* normalised.
C29_Witness ==
    /\ normalization.phase = "once"
    /\ \E n \in Merged(normalization.input, normalization.once) :
          normalization.input[n] >= 2
    /\ Cardinality(DOMAIN normalization.once) >= 2

\* --------------------------------------------------- the preprocessing alone

GRAYSCALE_LEVELS == 256
MAX_PIXEL_VALUE == 255
MIN_PIXEL_VALUE == 0

\* The number of pixels of the images handed to the preprocessing.
MaxPixels == 3

\* The luminance values of their pixels: the lowest value, two values seven
\* apart, two clusters, and a value midway between the clusters.
Luminances == {0, 7, 10, 125, 240}

\* A GrayImage: width * height pixels with a value of type u8 each.
GrayImage(width, height, pixels) ==
    [width |-> width, height |-> height, pixels |-> pixels]

\* An image in which the darkest pixel against the rest and the brightest
\* pixel against the rest have the same between-class variance, a third of a
\* whole number.
TieImage == GrayImage(2, 2, <<10, 125, 125, 240>>)

\* The images handed to the preprocessing, images without pixels included.
Images ==
    {GrayImage(w, h, pixels) :
        <<w, h, pixels>> \in
            {<<w, h, pixels>> \in
                (0..MaxPixels) \X (0..MaxPixels)
                    \X UNION {[1..n -> Luminances] : n \in 0..MaxPixels} :
                Len(pixels) = w * h}}
        \cup {TieImage}

\* The values of the pixels of an image.
PixelValues(pixels) == {pixels[k] : k \in DOMAIN pixels}

\* The fold of preprocess_image: the smallest and the greatest pixel value,
\* MAX_PIXEL_VALUE and MIN_PIXEL_VALUE for an image without pixels.
MinValue(pixels) ==
    CHOOSE m \in PixelValues(pixels) \cup {MAX_PIXEL_VALUE} :
        \A v \in PixelValues(pixels) \cup {MAX_PIXEL_VALUE} : m <= v
MaxValue(pixels) ==
    CHOOSE m \in PixelValues(pixels) \cup {MIN_PIXEL_VALUE} :
        \A v \in PixelValues(pixels) \cup {MIN_PIXEL_VALUE} : m >= v

RECURSIVE OddPart(_)
\* A number without its factors of two.
OddPart(n) == IF n % 2 = 0 THEN OddPart(n \div 2) ELSE n

\* MAX_PIXEL_VALUE as f32 / range as f32 is a value of type f32 without
\* rounding: the quotient is a whole number over a power of two.
ScaleIsExact(range) == MAX_PIXEL_VALUE % OddPart(range) = 0

\* The pixel values whose stretched value the rounding of the scale factor
\* can put just below a whole number, which `as u8` then truncates to the
\* number before it: the product is a whole number in exact arithmetic.
RoundingSensitive(pixels, min_value, max_value) ==
    {v \in PixelValues(pixels) :
        /\ v > min_value
        /\ ~ScaleIsExact(max_value - min_value)
        /\ ((v - min_value) * MAX_PIXEL_VALUE) % (max_value - min_value) = 0}

\* (original_value.saturating_sub(min_value) as f32 * scale_factor) as u8 for
\* every pixel: the product truncated, and one less for the values in
\* rounded_down.
StretchWith(pixels, min_value, max_value, rounded_down) ==
    [k \in DOMAIN pixels |->
        LET exact == ((pixels[k] - min_value) * MAX_PIXEL_VALUE)
                         \div (max_value - min_value)
        IN  IF pixels[k] \in rounded_down THEN exact - 1 ELSE exact]

\* The histogram stretching of preprocess_image: the pixel sequences it can
\* leave.  The arithmetic is that of f32; which of the values sensitive to
\* the rounding end one below the exact product is left open.
Stretched(pixels) ==
    LET min_value == MinValue(pixels)
        max_value == MaxValue(pixels)
    IN  IF max_value > min_value
        THEN {StretchWith(pixels, min_value, max_value, rounded_down) :
                rounded_down \in
                    SUBSET RoundingSensitive(pixels, min_value, max_value)}
        ELSE {pixels}

\* The histogram of calculate_otsu_threshold.
Histogram(pixels) ==
    [intensity \in 0..(GRAYSCALE_LEVELS - 1) |->
        Cardinality({k \in DOMAIN pixels : pixels[k] = intensity})]

RECURSIVE WeightedSum(_, _, _)
\* The sum of intensity * count over the bins from..(to - 1), which the first
\* loop of calculate_otsu_threshold adds up; the sums are whole numbers that
\* f32 holds without rounding for images of the sizes considered.
WeightedSum(histogram, from, to) ==
    IF to = from + 1 THEN from * histogram[from]
    ELSE LET mid == (from + to) \div 2
         IN  WeightedSum(histogram, from, mid)
                 + WeightedSum(histogram, mid, to)

\* background_weight * foreground_weight
\*     * (background_mean - foreground_mean).powi(2), as a fraction.  The two
\* means are quotients in f32: they are rounded unless the odd part of the
\* weight divides the sum, and with them the variance.
BetweenClassVariance(background_weight, foreground_weight, background_sum, weighted_sum) ==
    LET d == background_sum * foreground_weight
                 - (weighted_sum - background_sum) * background_weight
    IN  [num |-> d * d, den |-> background_weight * foreground_weight,
         rounded |->
             \/ background_sum % OddPart(background_weight) # 0
             \/ (weighted_sum - background_sum) % OddPart(foreground_weight)
                    # 0]

\* The order of two variances in exact arithmetic.
Greater(a, b) == a.num * b.den > b.num * a.den
Equal(a, b) == a.num * b.den = b.num * a.den

\* The variables of the second loop of calculate_otsu_threshold before its
\* first iteration; `broken` tells that the loop was left by its break.
OtsuStart ==
    [background_weight |-> 0, background_sum |-> 0,
     max_variance |-> [num |-> 0, den |-> 1, rounded |-> FALSE],
     optimal_threshold |-> MIN_PIXEL_VALUE, broken |-> FALSE]

\* An iteration that replaces the threshold also when the variance is as great
\* as the greatest one before.
OtsuStepAtLeast(histogram, total_pixels, weighted_sum, threshold, loop) ==
    LET pixel_count       == histogram[threshold]
        background_weight == loop.background_weight + pixel_count
        foreground_weight == total_pixels - background_weight
        background_sum    == loop.background_sum + threshold * pixel_count
        variance == BetweenClassVariance(background_weight, foreground_weight,
                                         background_sum, weighted_sum)
        kept     == [loop EXCEPT !.background_weight = background_weight,
                                 !.background_sum = background_sum]
        replaced == [kept EXCEPT !.max_variance = variance,
                                 !.optimal_threshold = threshold]
    IN  IF loop.broken THEN {loop}
        ELSE IF background_weight = 0
        THEN {[loop EXCEPT !.background_weight = background_weight]}
        ELSE IF foreground_weight = 0
        THEN {[loop EXCEPT !.background_weight = background_weight,
                           !.broken = TRUE]}
        ELSE IF Greater(loop.max_variance, variance) THEN {kept}
        ELSE {replaced}

\* One iteration of the second loop of calculate_otsu_threshold: the values
\* it can leave in the variables of the loop.  A threshold whose bin is empty
\* computes the variance of the threshold before it from the same operands
\* and never replaces it.  Of two variances that are equal in exact arithmetic
\* and computed in f32 from different operands, one of them rounded, the
\* rounding decides which is the greater, and that is left open.
OtsuStep(histogram, total_pixels, weighted_sum, threshold, loop) ==
    LET pixel_count       == histogram[threshold]
        background_weight == loop.background_weight + pixel_count
        foreground_weight == total_pixels - background_weight
        background_sum    == loop.background_sum + threshold * pixel_count
        variance == BetweenClassVariance(background_weight, foreground_weight,
                                         background_sum, weighted_sum)
        kept     == [loop EXCEPT !.background_weight = background_weight,
                                 !.background_sum = background_sum]
        replaced == [kept EXCEPT !.max_variance = variance,
                                 !.optimal_threshold = threshold]
    IN  IF loop.broken THEN {loop}
        ELSE IF background_weight = 0
        THEN {[loop EXCEPT !.background_weight = background_weight]}
        ELSE IF foreground_weight = 0
        THEN {[loop EXCEPT !.background_weight = background_weight,
                           !.broken = TRUE]}
        ELSE IF pixel_count = 0 THEN {kept}
        ELSE IF Greater(variance, loop.max_variance) THEN {replaced}
        ELSE IF /\ Equal(variance, loop.max_variance)
                /\ variance.rounded \/ loop.max_variance.rounded
        THEN {kept, replaced}
        ELSE {kept}

RECURSIVE OtsuLoop(_, _, _, _, _, _)
\* The iterations of the loop for the thresholds from..(to - 1), one after
\* the other.
OtsuLoop(histogram, total_pixels, weighted_sum, from, to, loops) ==
    IF to = from + 1
    THEN UNION {OtsuStep(histogram, total_pixels, weighted_sum, from, loop) :
                    loop \in loops}
    ELSE LET mid   == (from + to) \div 2
             first == OtsuLoop(histogram, total_pixels, weighted_sum, from,
                               mid, loops)
         IN  IF first = {} THEN {}
             ELSE OtsuLoop(histogram, total_pixels, weighted_sum, mid, to,
                           first)

\* calculate_otsu_threshold: the thresholds a call can return.
calculate_otsu_threshold(grayscale) ==
    LET histogram == Histogram(grayscale.pixels)
    IN  {loop.optimal_threshold :
            loop \in OtsuLoop(histogram, grayscale.width * grayscale.height,
                              WeightedSum(histogram, 0, GRAYSCALE_LEVELS),
                              0, GRAYSCALE_LEVELS, {OtsuStart})}

\* A thresholding that makes the pixels at the threshold white as well.
BinarizeAtLeast(pixels, threshold) ==
    [k \in DOMAIN pixels |->
        IF pixels[k] >= threshold THEN MAX_PIXEL_VALUE ELSE MIN_PIXEL_VALUE]

\* The thresholding of preprocess_image.
Binarize(pixels, threshold) ==
    [k \in DOMAIN pixels |->
        IF pixels[k] > threshold THEN MAX_PIXEL_VALUE ELSE MIN_PIXEL_VALUE]

\* preprocess_image on an image that is grayscale already: what a call can
\* leave as the stretched pixels, the threshold and the image returned.
preprocess_image(image) ==
    UNION {{[stretched |-> stretched, threshold |-> threshold,
             output |-> GrayImage(image.width, image.height,
                                  Binarize(stretched, threshold))] :
               threshold \in calculate_otsu_threshold(
                                 GrayImage(image.width, image.height,
                                           stretched))} :
           stretched \in Stretched(image.pixels)}

\* The loop is not entered; an image is handed to the preprocessing.
InitPreprocess ==
    /\ InitLoop
    /\ cfg = [empty_threshold |-> 0, window_detection |-> FALSE]
    /\ horizon.ticks = MaxHist
    /\ extraction = NoExtraction
    /\ normalization = NoNormalization
    /\ \E image \in Images :
          preprocessing =
              [NoPreprocessing EXCEPT !.phase = "input", !.image = image]

\* The image is preprocessed.
Preprocess ==
    /\ preprocessing.phase = "input"
    /\ \E result \in preprocess_image(preprocessing.image) :
          preprocessing' =
              [preprocessing EXCEPT !.phase = "output",
                                    !.stretched = result.stretched,
                                    !.threshold = result.threshold,
                                    !.output = result.output]
    /\ UNCHANGED <<loop_vars, extraction, normalization>>

\* The threshold of the image as it is handed over is calculated.
Threshold ==
    /\ preprocessing.phase = "input"
    /\ \E threshold \in calculate_otsu_threshold(preprocessing.image) :
          preprocessing' =
              [preprocessing EXCEPT !.phase = "threshold",
                                    !.threshold = threshold]
    /\ UNCHANGED <<loop_vars, extraction, normalization>>

NextPreprocess == Preprocess \/ Threshold

SpecPreprocess == InitPreprocess /\ [][NextPreprocess]_vars


\* ------------------------------------------------- claims: the preprocessing

\* All pixels of an image have one value.
Uniform(image) == Cardinality(PixelValues(image.pixels)) <= 1

\* C24: preprocessing has no error path: every image, a uniform one included,
\* has a result; the result has the dimensions of the image and as many
\* pixels; a uniform image is not stretched; every stretched value and the
\* threshold are values of type u8; every pixel of the result is 0 or 255,
\* and it is 255 exactly when its stretched value is strictly greater than
\* the threshold.
C24_PreprocessTotal ==
    /\ preprocessing.phase = "input" =>
          preprocess_image(preprocessing.image) # {}
    /\ preprocessing.phase = "output" =>
          LET image     == preprocessing.image
              stretched == preprocessing.stretched
              output    == preprocessing.output
          IN  /\ output.width = image.width
              /\ output.height = image.height
              /\ DOMAIN output.pixels = DOMAIN image.pixels
              /\ DOMAIN stretched = DOMAIN image.pixels
              /\ Uniform(image) => stretched = image.pixels
              /\ preprocessing.threshold \in MIN_PIXEL_VALUE..MAX_PIXEL_VALUE
              /\ \A k \in DOMAIN output.pixels :
                    /\ stretched[k] \in MIN_PIXEL_VALUE..MAX_PIXEL_VALUE
                    /\ output.pixels[k] \in {MIN_PIXEL_VALUE, MAX_PIXEL_VALUE}
                    /\ output.pixels[k] = MAX_PIXEL_VALUE
                           <=> stretched[k] > preprocessing.threshold

\* A uniform image of several pixels, none of them black, has been
\* preprocessed.
C24_Witness ==
    /\ preprocessing.phase = "output"
    /\ Uniform(preprocessing.image)
    /\ Len(preprocessing.image.pixels) >= 2
    /\ preprocessing.image.pixels[1] > MIN_PIXEL_VALUE


\* The pixels of the image have exactly the two values lo and hi.
TwoValued(image, lo, hi) == lo < hi /\ PixelValues(image.pixels) = {lo, hi}

\* C25 as stated: on an image whose pixels have exactly two values lo < hi,
\* in any positive counts, the threshold calculated lies strictly between
\* them: lo < threshold < hi.
C25_ThresholdStrictlyBetween ==
    preprocessing.phase = "threshold" =>
        \A lo \in Luminances, hi \in Luminances :
            TwoValued(preprocessing.image, lo, hi) =>
                lo < preprocessing.threshold /\ preprocessing.threshold < hi

\* C25: on an image whose pixels have exactly two values lo < hi, in any
\* positive counts, the threshold calculated is lo: lo <= threshold < hi, so
\* that the pixels at lo are not greater than the threshold and the pixels at
\* hi are.
C25_ThresholdAtLowerValue ==
    preprocessing.phase = "threshold" =>
        \A lo \in Luminances, hi \in Luminances :
            TwoValued(preprocessing.image, lo, hi) =>
                /\ preprocessing.threshold = lo
                /\ Binarize(preprocessing.image.pixels, preprocessing.threshold)
                       = [k \in DOMAIN preprocessing.image.pixels |->
                             IF preprocessing.image.pixels[k] = hi
                             THEN MAX_PIXEL_VALUE ELSE MIN_PIXEL_VALUE]

\* The threshold of an image with two pixels at 10 and one at 240 has been
\* calculated.
C25_Witness ==
    /\ preprocessing.phase = "threshold"
    /\ TwoValued(preprocessing.image, 10, 240)
    /\ Cardinality({k \in DOMAIN preprocessing.image.pixels :
                       preprocessing.image.pixels[k] = 10}) = 2
    /\ Len(preprocessing.image.pixels) = 3


\* ------------------------------------------ claims: degenerate thresholds

\* C26: with empty_threshold 0 or 1, a pending name is counted on the very
\* first tick without a match after its detection: every tick without a match
\* that finds a name pending counts that name and leaves no name pending and
\* the counter at 0.
C26_DegenerateThresholdCountsAtOnce ==
    cfg.empty_threshold \in {0, 1} =>
        \A k \in Ticks :
            NoMatchAt(k) /\ hist[k].before.some =>
                /\ hist[k].counted = hist[k].before
                /\ hist[k].after = NoName
                /\ hist[k].count = 0

\* With empty_threshold 1, a name was detected in one tick and counted in the
\* next, which had no match.
C26_Witness ==
    /\ cfg.empty_threshold = 1
    /\ \E k \in Ticks :
          /\ k > 1
          /\ ~hist[k - 1].before.some
          /\ hist[k - 1].name.some
          /\ NoMatchAt(k)
          /\ hist[k].counted = hist[k - 1].name
          /\ hist[k].counted.val \in DOMAIN text_counts


\* The pixels of the background class of a threshold, and of the foreground.
Background(pixels, t) == {k \in DOMAIN pixels : pixels[k] <= t}
Foreground(pixels, t) == {k \in DOMAIN pixels : pixels[k] > t}

RECURSIVE PixelSum(_, _)
\* The sum of the values of a set of pixels.
PixelSum(pixels, ks) ==
    IF ks = {} THEN 0
    ELSE LET k == CHOOSE x \in ks : TRUE
         IN  pixels[k] + PixelSum(pixels, ks \ {k})

\* The thresholds for which both classes have pixels.
Candidates(pixels) ==
    {t \in MIN_PIXEL_VALUE..MAX_PIXEL_VALUE :
        Background(pixels, t) # {} /\ Foreground(pixels, t) # {}}

\* backgroundWeight * foregroundWeight * (backgroundMean - foregroundMean)^2
\* of a candidate, as a fraction.
VarianceAt(pixels, t) ==
    BetweenClassVariance(Cardinality(Background(pixels, t)),
                         Cardinality(Foreground(pixels, t)),
                         PixelSum(pixels, Background(pixels, t)),
                         PixelSum(pixels, DOMAIN pixels))

\* The candidates of the greatest variance.
Maximizers(pixels) ==
    LET variances == [t \in Candidates(pixels) |-> VarianceAt(pixels, t)]
    IN  {t \in DOMAIN variances :
            \A u \in DOMAIN variances : ~Greater(variances[u], variances[t])}

\* The lowest of a set of thresholds.
Lowest(ts) == CHOOSE t \in ts : \A u \in ts : t <= u

\* C28: the threshold calculated is the lowest t in 0..255 that maximises
\* backgroundWeight * foregroundWeight * (backgroundMean - foregroundMean)^2
\* over the t for which both classes have pixels, the background being the
\* pixels <= t; a t with an empty class is never selected; the threshold is
\* 0 when no t has both classes non-empty.
C28_LowestMaximizer ==
    preprocessing.phase = "threshold" =>
        LET pixels == preprocessing.image.pixels
        IN  preprocessing.threshold =
                IF Candidates(pixels) = {} THEN MIN_PIXEL_VALUE
                ELSE Lowest(Maximizers(pixels))


\* ------------------------------------------------ claims: the pause record

\* C30: the pause-start timestamp is recorded exactly when the loop is paused
\* by at least one source: it is present whenever the manual pause or the
\* window pause is active and absent whenever neither is.
C30_PauseStartIffPaused ==
    pause_start.some <=> (paused \/ window_paused)


\* ---------------------------------------------- claims: the empty counter

\* The counter a recorded tick found: 0 at the start and after a restart, and
\* what the tick before left otherwise.
CountBefore(k) == IF k = 1 THEN 0 ELSE hist[k - 1].count

\* C31: for empty_threshold >= 1 the empty counter satisfies
\* 0 <= counter < empty_threshold after every tick: a tick that extracts a
\* name and a tick at which the counter reaches the threshold leave it at 0,
\* any other tick without a match leaves it one greater than it was, steps
\* that are not sample ticks leave it as the last tick left it, and it is 0
\* after every tick that counts a name.
C31_CounterBelowThreshold ==
    cfg.empty_threshold >= 1 =>
        /\ 0 <= no_pattern_count
        /\ no_pattern_count < cfg.empty_threshold
        /\ no_pattern_count = CountBefore(Len(hist) + 1)
        /\ \A k \in Ticks :
              /\ hist[k].name.some => hist[k].count = 0
              /\ hist[k].counted.some => hist[k].count = 0
              /\ NoMatchAt(k) =>
                    hist[k].count =
                        IF CountBefore(k) + 1 >= cfg.empty_threshold
                        THEN 0 ELSE CountBefore(k) + 1

\* With a threshold of two or more, the counter stood one below the
\* threshold, and the next tick, without a match, counted a name and left
\* the counter at 0.
C31_Witness ==
    /\ cfg.empty_threshold >= 2
    /\ \E k \in Ticks :
          /\ k > 1
          /\ hist[k - 1].count = cfg.empty_threshold - 1
          /\ NoMatchAt(k)
          /\ hist[k].counted.some
          /\ hist[k].count = 0
    /\ no_pattern_count = 0

=============================================================================
